---- MODULE Spec2Model ----
(***************************************************************************)
(* git-hooks: hook resolution and execution.                               *)
(*   src/src/main.rs   HookConfig, ExternalHookRepo, run_hook, main (run)  *)
(*   src/src/git.rs    changed_files, add, root, pull, clone, checkout     *)
(*   src/src/utils.rs  execute_cmd, matches, get_files, prefix_path,       *)
(*                     get_local_repo_path                                 *)
(* The specifications share the state:                                     *)
(*   Spec       one run of `git-hooks run <event>`: from_file, dispatch    *)
(*   SpecMerge  HookConfig::update_repos_config on bounded configurations  *)
(*   SpecHook   run_hook on bounded hooks and repository states            *)
(*   SpecMatch  utils::matches and utils::get_files on bounded paths       *)
(*   SpecInit   ExternalHookRepo::init on one source, run after run        *)
(*   SpecTwice  update_repos_config applied twice in a row                 *)
(*   SpecStage  git::add and git::changed_files on bounded repositories    *)
(*   SpecPipe   utils::execute_cmd and the child it spawns, step by step   *)
(*   SpecSources  from_file materializing the sources of one config        *)
(***************************************************************************)
EXTENDS Integers, Sequences, FiniteSets

VARIABLES
    pc,                 \* position in the program
    conf,               \* the HookConfig value: [hooks, repos]
    before,             \* ghost: conf as it was when the last operation started
    origin,             \* ghost: per source, how init() ended ("init": before the hooks were assigned, "setup", "none") and the manifest read
    event,              \* the event given to `run`
    has_executed_hook,  \* main.rs:519
    had_error,          \* main.rs:520
    result,             \* what main returns: "none" while running, "ok", "err"
    calls,              \* ghost: log of run_hook invocations, in order
    setups,             \* ghost: log of setup scripts executed
    idx,                \* git index: file -> content (0 = absent)
    wt,                 \* working tree: file -> content (0 = absent)
    bins,               \* set of <<directory, program>>: executables on disk
    input,              \* the arguments of the function under check (SpecMatch), the remote of the source (SpecInit)
    clones,             \* the working copies under .git/hook-repos: local path -> Option<WorkingCopy>
    proc                \* the child of execute_cmd and its two pipes (SpecPipe)

vars == <<pc, conf, before, origin, event, has_executed_hook, had_error,
          result, calls, setups, idx, wt, bins, input, clones, proc>>

-----------------------------------------------------------------------------
(* Bounds *)

MaxOverrides == 1       \* length of the top-level hooks list in Spec
MaxManifestHooks == 2   \* hooks over all the source manifests in Spec
MaxSources == 2         \* sources per top-level file in Spec
MaxArgs == 3            \* argument tokens of an action in SpecHook
MaxMergeOverrides == 2  \* length of the override list in SpecMerge
MaxMergeSources == 1    \* sources in SpecMerge
MaxMergeHooks == 1      \* hooks per source in SpecMerge
MaxPatterns == 2        \* patterns of an on_file_regex list in SpecMatch
MaxInitHooks == 2       \* hooks of a manifest in SpecInit
MaxWrites == 4          \* writes the child of SpecPipe makes before it exits
PipeCapacity == 2       \* writes a pipe holds before the writer blocks

-----------------------------------------------------------------------------
(* Option<T>: None is the empty tuple, Some(v) the one-element tuple *)

None == <<>>

Some(v) == <<v>>

is_some(o) == Len(o) = 1

unwrap_or(o, d) == IF Len(o) = 1 THEN o[1] ELSE d

contains(s, e) == \E i \in 1..Len(s) : s[i] = e

SeqsUpTo(S, n) == UNION {[1..k -> S] : k \in 0..n}

-----------------------------------------------------------------------------
(* Data model *)

Names == {"h1", "h2"}

PreCommit == "pre-commit"

PostCommit == "post-commit"

ALL_HOOK_EVENTS ==
    <<"apply-patch-msg", "commit-msg", "post-commit", "post-update",
      "pre-apply-patch", "pre-commit", "pre-merge-commit", "pre-push",
      "pre-rebase", "pre-receive", "prepare-commit-msg", "update">>

Hook(n, ev, re, ac, su) ==
    [name |-> n, on_event |-> ev, on_file_regex |-> re, action |-> ac,
     setup_script |-> su]

ExternalHookRepo(u, hs) == [url |-> u, hooks |-> hs, version |-> None]

HookConfig(hs, rs) == [hooks |-> hs, repos |-> rs]

OverrideFields == {"on_event", "on_file_regex", "action", "setup_script"}

-----------------------------------------------------------------------------
(* HookConfig::update_repos_config *)

\* faulty variant: whole-record replace instead of a field-level merge
merge_hook_whole(h, hooks) ==
    LET same == SelectSeq(hooks, LAMBDA o : o.name = h.name)
    IN  IF same = <<>> THEN h ELSE same[1]

\* faulty variant: the last same-named entry is taken, not hooks[0]
merge_hook_last(h, hooks) ==
    LET same == SelectSeq(hooks, LAMBDA o : o.name = h.name)
    IN  IF same = <<>> THEN h
        ELSE LET hook == same[Len(same)]
             IN  [name |-> h.name,
                  on_event |-> IF is_some(hook.on_event)
                               THEN hook.on_event ELSE h.on_event,
                  on_file_regex |-> IF is_some(hook.on_file_regex)
                                    THEN hook.on_file_regex
                                    ELSE h.on_file_regex,
                  action |-> IF is_some(hook.action)
                             THEN hook.action ELSE h.action,
                  setup_script |-> IF is_some(hook.setup_script)
                                   THEN hook.setup_script
                                   ELSE h.setup_script]

\* faulty variant: the override's pattern and event lists are appended to
\* the hook's own lists instead of replacing them
merge_hook_extend(h, hooks) ==
    LET same == SelectSeq(hooks, LAMBDA o : o.name = h.name)
    IN  IF same = <<>> THEN h
        ELSE LET hook == same[1]
             IN  [name |-> h.name,
                  on_event |-> IF is_some(hook.on_event)
                               THEN Some(unwrap_or(h.on_event, <<>>)
                                         \o hook.on_event[1])
                               ELSE h.on_event,
                  on_file_regex |-> IF is_some(hook.on_file_regex)
                                    THEN Some(unwrap_or(h.on_file_regex, <<>>)
                                              \o hook.on_file_regex[1])
                                    ELSE h.on_file_regex,
                  action |-> IF is_some(hook.action)
                             THEN hook.action ELSE h.action,
                  setup_script |-> IF is_some(hook.setup_script)
                                   THEN hook.setup_script
                                   ELSE h.setup_script]

\* the closure applied to each source hook h (main.rs:419-439)
merge_hook(h, hooks) ==
    LET same == SelectSeq(hooks, LAMBDA o : o.name = h.name)
    IN  IF same = <<>> THEN h
        ELSE LET hook == same[1]
             IN  IF h.name = hook.name
                 THEN [name |-> h.name,
                       on_event |-> IF is_some(hook.on_event)
                                    THEN hook.on_event ELSE h.on_event,
                       on_file_regex |-> IF is_some(hook.on_file_regex)
                                         THEN hook.on_file_regex
                                         ELSE h.on_file_regex,
                       action |-> IF is_some(hook.action)
                                  THEN hook.action ELSE h.action,
                       setup_script |-> IF is_some(hook.setup_script)
                                        THEN hook.setup_script
                                        ELSE h.setup_script]
                 ELSE h

update_repos_config(c) ==
    [hooks |-> c.hooks,
     repos |-> [r \in 1..Len(c.repos) |->
                 [url |-> c.repos[r].url,
                  version |-> c.repos[r].version,
                  hooks |-> [j \in 1..Len(c.repos[r].hooks) |->
                              merge_hook(c.repos[r].hooks[j], c.hooks)]]]]

-----------------------------------------------------------------------------
(* Paths, patterns and the repository on disk *)

\* git::root(): `git rev-parse --show-toplevel`.  A path is the sequence of
\* its components; the empty first component makes it absolute ("/repo")
root == <<"", "repo">>

HOOK_REPOS_SAVE_LOCATION == ".git/hook-repos"

PATH == << <<"usr", "bin">> >>   \* env::var("PATH"), split at ':'

TrackedFiles == <<"a.txt", "b.rs">>     \* in the order git lists them

Files == {TrackedFiles[i] : i \in 1..Len(TrackedFiles)}

\* content of each file in HEAD (0 = not in HEAD)
head == [f \in Files |-> IF f = "b.rs" THEN 1 ELSE 0]

HookContent == 3            \* what a hook command writes into a file

\* what WalkDir::new(root) visits below the root, the root itself first
WalkOrder == << <<>>, <<".git">>, <<".git", "config">>, <<"a.txt">>, <<"b.rs">> >>

\* the directories on disk, relative to the root
Dirs == { <<>>, <<".git">>, <<"src">> }

\* p without the root it starts with; the process runs at the root, so a
\* relative path names the same file
below_root(p) ==
    IF Len(p) >= Len(root) /\ SubSeq(p, 1, Len(root)) = root
    THEN SubSeq(p, Len(root) + 1, Len(p))
    ELSE p

\* Path::is_dir
is_dir(p) == below_root(p) \in Dirs

\* the characters of the path components used
Chars(name) ==
    CASE name = "" -> <<>>
      [] name = "repo" -> <<"r", "e", "p", "o">>
      [] name = ".git" -> <<".", "g", "i", "t">>
      [] name = "config" -> <<"c", "o", "n", "f", "i", "g">>
      [] name = "a.txt" -> <<"a", ".", "t", "x", "t">>
      [] name = "b.rs" -> <<"b", ".", "r", "s">>
      [] name = "src" -> <<"s", "r", "c">>
      [] name = ".gitignore" ->
            <<".", "g", "i", "t", "i", "g", "n", "o", "r", "e">>

\* e.display().to_string(): the components joined by '/'
RECURSIVE display(_)
display(e) ==
    IF e = <<>> THEN <<>>
    ELSE IF Len(e) = 1 THEN Chars(e[1])
    ELSE Chars(e[1]) \o <<"/">> \o display(Tail(e))

MatchAll == ".*"

TxtRe == "\\.txt$"

SrcRe == "^src/"

DotGitRe == "\\.git/*"

\* Regex::new(regex) for the patterns used, each of the form
\* ^? literal (c*)? $? : whether it is anchored at the start, the literal,
\* the character under the star ("" none, "." any) and whether it is
\* anchored at the end
Regex_new(regex) ==
    CASE regex = MatchAll ->
            [start |-> FALSE, lit |-> <<>>, star |-> ".", end |-> FALSE]
      [] regex = TxtRe ->
            [start |-> FALSE, lit |-> <<".", "t", "x", "t">>, star |-> "",
             end |-> TRUE]
      [] regex = SrcRe ->
            [start |-> TRUE, lit |-> <<"s", "r", "c", "/">>, star |-> "",
             end |-> FALSE]
      [] regex = DotGitRe ->
            [start |-> FALSE, lit |-> <<".", "g", "i", "t">>, star |-> "/",
             end |-> FALSE]

\* Regex::is_match: unanchored search of the compiled pattern r in the
\* characters s
is_match(r, s) ==
    \E i \in 1..(Len(s) - Len(r.lit) + 1) :
        /\ r.start => i = 1
        /\ \A k \in 1..Len(r.lit) : s[i + k - 1] = r.lit[k]
        /\ r.end => \A k \in (i + Len(r.lit))..Len(s) :
                        r.star = "." \/ s[k] = r.star

\* utils.rs:82-83 and 88
dot_git_re(e) == is_match(Regex_new(DotGitRe), display(e))

\* faulty variant: directories are not set aside
matches_with_dirs(e, regexps) ==
    IF dot_git_re(e) THEN FALSE
    ELSE \E i \in 1..Len(regexps) :
            is_match(Regex_new(regexps[i]), display(e))

\* utils::matches
matches(e, regexps) ==
    IF is_dir(e) THEN FALSE
    ELSE IF dot_git_re(e) THEN FALSE
    ELSE \E i \in 1..Len(regexps) :
            is_match(Regex_new(regexps[i]), display(e))

exists_on_disk(p, w) ==
    IF Len(p) = 1 /\ p[1] \in Files THEN w[p[1]] # 0 ELSE TRUE

\* utils::get_files: walk base_dir, filter the paths through matches
get_files(base_dir, regexps, w) ==
    LET hit == SelectSeq(WalkOrder,
                         LAMBDA p : /\ exists_on_disk(p, w)
                                    /\ matches(base_dir \o p, regexps))
    IN  [i \in 1..Len(hit) |-> base_dir \o hit[i]]

\* --diff-filter=ACM (git.rs:184): added, copied, modified
DiffFilter == {"A", "C", "M"}

\* the status `git diff --cached` gives file f, index against HEAD, with
\* git's default rename detection: a file new in the index whose content is
\* that of a file removed from the index is the target of a rename ("R"),
\* not an addition; "" when f does not differ
diff_status(f, ix) ==
    IF ix[f] = head[f] THEN ""
    ELSE IF ix[f] = 0 THEN "D"
    ELSE IF head[f] # 0 THEN "M"
    ELSE IF \E g \in Files : head[g] # 0 /\ ix[g] = 0 /\ head[g] = ix[f]
    THEN "R"
    ELSE "A"

\* git::changed_files: `git diff --name-only --diff-filter=ACM --cached`
\* when in_index, else `git ls-files --others --exclude-standard`
changed_files(in_index, ix, w) ==
    IF in_index
    THEN SelectSeq(TrackedFiles, LAMBDA f : diff_status(f, ix) \in DiffFilter)
    ELSE SelectSeq(TrackedFiles, LAMBDA f : w[f] # 0 /\ ix[f] = 0)

\* git::add: `git add <files>` copies the working-tree content to the index
add(files, ix, w) == [f \in Files |-> IF contains(files, f) THEN w[f] ELSE ix[f]]

\* `git add` exits with an error, and stages nothing, when one of the paths
\* names no file of the working tree and no entry of the index
add_status(files, ix, w) ==
    IF \E i \in 1..Len(files) : w[files[i]] = 0 /\ ix[files[i]] = 0
    THEN "err" ELSE "ok"

\* utils::get_local_repo_path: root/.git/hook-repos/<last segment of url>
get_local_repo_path(url) == root \o <<HOOK_REPOS_SAVE_LOCATION, url[Len(url)]>>

\* utils::prefix_path: "<p>:" inserted at the front of PATH
prefix_path(p) == <<p>> \o PATH

\* run_hook, main.rs:219-220: PATH with ":<hook_repo_path>" pushed at the end
hook_bin_path(hook_repo_path) == PATH \o <<hook_repo_path>>

\* the directory execvp runs `bin` from, given the child's PATH; None when
\* no directory of the search path holds it (spawn fails)
resolve(bin, path, bs) ==
    LET hit == SelectSeq(path, LAMBDA d : <<d, bin>> \in bs)
    IN  IF hit = <<>> THEN None ELSE Some(hit[1])

-----------------------------------------------------------------------------
(* run_hook: placeholder expansion *)

\* ActionFileToken::from_str
from_str(token) ==
    CASE token = "{file}" -> Some("File")
      [] token = "{files}" -> Some("Files")
      [] token = "{changed_files}" -> Some("ChangedFiles")
      [] token = "{changed_file}" -> Some("ChangedFile")
      [] token = "{root}" -> Some("Root")
      [] OTHER -> None

\* one argument of the spawned command; src is a ghost field: the position
\* (among the action's argument tokens) of the token it comes from
Arg(v, i) == [val |-> v, src |-> i]

tag(vals, i) == [k \in 1..Len(vals) |-> Arg(vals[k], i)]

default_regex(hook) == unwrap_or(hook.on_file_regex, <<MatchAll>>)

\* the files {files} expands to
files_for(hook, w) == get_files(root, default_regex(hook), w)

\* the files {changed_files} expands to
changed_files_for(hook, ix, w) ==
    LET sel == SelectSeq(changed_files(TRUE, ix, w),
                         LAMBDA f : matches(<<f>>, default_regex(hook)))
    IN  [k \in 1..Len(sel) |-> <<sel[k]>>]

\* main.rs:245 and main.rs:266: should_run = !files.is_empty()
next_should_run(should_run, files) == files # <<>>

\* faulty variant: a literal is pushed whatever should_run says
push_literal_always(final_args, should_run, arg, i) ==
    Append(final_args, Arg(<<arg>>, i))

\* faulty variant: the test on should_run is inverted
push_literal_inverted(final_args, should_run, arg, i) ==
    IF should_run THEN final_args ELSE Append(final_args, Arg(<<arg>>, i))

\* main.rs:277-281: a literal token is pushed only while should_run holds
push_literal(final_args, should_run, arg, i) ==
    IF should_run THEN Append(final_args, Arg(<<arg>>, i)) ELSE final_args

\* faulty variant: the root goes to the front of the arguments
push_root_first(final_args, i) == <<Arg(root, i)>> \o final_args

\* main.rs:273-275: final_args.push(root.clone())
push_root(final_args, i) == Append(final_args, Arg(root, i))

\* faulty variant: a reserved placeholder is passed over, like a literal,
\* while should_run is false
unimplemented_skipped(st) ==
    IF st.should_run THEN [st EXCEPT !.panic = TRUE] ELSE st

\* main.rs:248-250 and 269-272: unimplemented!()
unimplemented(st) == [st EXCEPT !.panic = TRUE]

\* the loop of main.rs:234-282 from argument i on; st is
\* [final_args, should_run, panic]
RECURSIVE expand_from(_, _, _, _, _, _)
expand_from(hook, args, i, st, ix, w) ==
    IF i > Len(args) \/ st.panic THEN st
    ELSE LET token == from_str(args[i])
             nxt ==
               IF token = Some("Files")
               THEN LET files == files_for(hook, w)
                    IN  [final_args |-> st.final_args \o tag(files, i),
                         should_run |-> next_should_run(st.should_run, files),
                         panic |-> FALSE]
               ELSE IF token = Some("ChangedFiles")
               THEN LET files == changed_files_for(hook, ix, w)
                    IN  [final_args |-> st.final_args \o tag(files, i),
                         should_run |-> next_should_run(st.should_run, files),
                         panic |-> FALSE]
               ELSE IF token = Some("File") \/ token = Some("ChangedFile")
               THEN unimplemented(st)
               ELSE IF token = Some("Root")
               THEN [st EXCEPT !.final_args = push_root(@, i)]
               ELSE [st EXCEPT !.final_args =
                         push_literal(@, st.should_run, args[i], i)]
         IN  expand_from(hook, args, i + 1, nxt, ix, w)

expand(hook, args, ix, w) ==
    expand_from(hook, args, 1,
                [final_args |-> <<>>, should_run |-> TRUE, panic |-> FALSE],
                ix, w)

-----------------------------------------------------------------------------
(* run_hook *)

\* what the spawned command does: its exit code and the files it rewrites
Behaviours == [code : {0, 1}, mods : {{}, {"a.txt"}, {"b.rs"}}]

\* in Spec the hook commands leave the working tree alone
RunBehaviours == {b \in Behaviours : b.mods = {}}

HookResult(st, stp, sp, ex, er, ix, w, ra) ==
    [status |-> st, steps |-> stp, spawned |-> sp, exit |-> ex, error |-> er,
     idx |-> ix, wt |-> w, re_added |-> ra]

\* main.rs:298-301: changed_files filtered by membership in index_files
files_to_re_add(index_files, changed, ix, w) ==
    SelectSeq(changed, LAMBDA f : contains(index_files, f))

\* an anyhow::Error or a panic payload: its message, and the hook and the
\* exit code it names (None when it names none)
Error(msg, hook, code) == [msg |-> msg, hook |-> hook, code |-> code]

NoError == Error("", None, None)

\* utils::execute_cmd for a program found in `dir` (None: not found) that
\* exits with `code`: Err when spawn fails (utils.rs:36), Err when the
\* status is not a success (utils.rs:62-68), else Ok((status, ..))
execute_cmd(dir, code) ==
    IF dir = None THEN [ok |-> FALSE, err |-> "spawn", status |-> None]
    ELSE IF code # 0
    THEN [ok |-> FALSE, err |-> "command invoked with errors", status |-> None]
    ELSE [ok |-> TRUE, err |-> "", status |-> Some(code)]

\* run_hook(hook, hook_repo_path) in repository state (ix, w) with the
\* executables bs, the spawned command behaving as beh
run_hook(hook, hook_repo_path, ix, w, bs, beh) ==
    LET bin_path == hook_bin_path(hook_repo_path)
        pre == <<"root", "path">>
    IN  IF ~is_some(hook.action)            \* .expect("None action on hook exec")
        THEN HookResult("panic", pre, None, None,
                        Error("None action on hook exec", None, None),
                        ix, w, <<>>)
        ELSE IF hook.action[1] = <<>>       \* action.next().unwrap()
        THEN HookResult("panic", pre, None, None,
                        Error("unwrap on None", None, None), ix, w, <<>>)
        ELSE
        LET cmd == Head(hook.action[1])
            args == Tail(hook.action[1])
            ex == expand(hook, args, ix, w)
            dir == resolve(cmd, bin_path, bs)
            attempt == [cmd |-> cmd, args |-> ex.final_args, cwd |-> root,
                        path |-> bin_path, dir |-> dir]
            w1 == [f \in Files |-> IF f \in beh.mods THEN HookContent ELSE w[f]]
            r == execute_cmd(dir, beh.code)
        IN  IF ex.panic                     \* unimplemented!()
            THEN HookResult("panic", pre \o <<"expand">>, None, None,
                            Error("not implemented", None, None), ix, w, <<>>)
            ELSE IF ~r.ok /\ dir = None     \* main.rs:283, `?` on spawn()
            THEN HookResult("err", pre \o <<"expand", "spawn">>, Some(attempt),
                            None, Error(r.err, None, None), ix, w, <<>>)
            ELSE IF ~r.ok                   \* main.rs:283, `?` on the status
            THEN HookResult("err", pre \o <<"expand", "spawn", "wait">>,
                            Some(attempt), Some(beh.code),
                            Error(r.err, None, None), ix, w1, <<>>)
            ELSE IF r.status[1] # 0         \* main.rs:289-294
            THEN HookResult("err", pre \o <<"expand", "spawn", "wait">>,
                            Some(attempt), Some(beh.code),
                            Error("reported execution failure",
                                  Some(hook.name), r.status),
                            ix, w1, <<>>)
            ELSE
            LET index_files == changed_files(TRUE, ix, w1)
                changed == changed_files(FALSE, ix, w1)
                re_add == files_to_re_add(index_files, changed, ix, w1)
            IN  HookResult("ok",
                           pre \o <<"expand", "spawn", "wait", "reconcile">>,
                           Some(attempt), Some(beh.code), NoError,
                           IF re_add # <<>> THEN add(re_add, ix, w1) ELSE ix,
                           w1, re_add)

Call(r, j, hook, res, ix, w) ==
    [repo |-> r, hook_idx |-> j, hook |-> hook, status |-> res.status,
     steps |-> res.steps, spawned |-> res.spawned, exit |-> res.exit,
     error |-> res.error,
     re_added |-> res.re_added, idx_before |-> ix, wt_before |-> w,
     idx_after |-> res.idx, wt_after |-> res.wt]

-----------------------------------------------------------------------------
(* Inputs *)

RepoNames == <<"lint-hooks", "fmt-hooks", "test-hooks", "doc-hooks">>

Url(i) == <<"https:", "", "example.org", RepoNames[i]>>

LintAction == <<"lint", "{changed_files}">>

OverrideAction == <<"lint", "--strict", "{changed_files}">>

SetupScript == "setup.sh"

Events == {PreCommit, PostCommit}

\* override hooks of the top-level file in Spec: a name, with or without an
\* action of their own
OverrideHooks ==
    {Hook(n, None, None, ac, None) :
        n \in Names, ac \in {None, Some(OverrideAction)}}

\* hooks of a source manifest in Spec: one per name on the default event, and
\* a post-commit hook that carries a setup script
ManifestHooks ==
    {Hook("h1", None, None, Some(LintAction), None),
     Hook("h2", None, None, Some(LintAction), None),
     Hook("h1", Some(<<PostCommit>>), None, Some(LintAction), Some(SetupScript))}

\* the hooks value a source entry of the top-level file may carry
DeclaredHooks == {<<>>, <<Hook("h1", None, None, None, None)>>}

\* the top-level files of Spec: an override list and up to MaxSources source
\* entries, the first of which may carry a hooks value
TopLevelFiles ==
    {HookConfig(hs, [i \in 1..n |->
                       ExternalHookRepo(Url(i), IF i = 1 THEN d ELSE <<>>)]) :
        hs \in SeqsUpTo(OverrideHooks, MaxOverrides),
        n \in 0..MaxSources,
        d \in DeclaredHooks}

InitSteps == {"pull", "read", "parse"}

-----------------------------------------------------------------------------
(* ExternalHookRepo::init and ExternalHookRepo::setup *)

\* positions of the hooks of hs that have a setup script, in list order
setup_positions(hs) ==
    SelectSeq([j \in 1..Len(hs) |-> j], LAMBDA j : is_some(hs[j].setup_script))

\* ExternalHookRepo::setup: the scripts run in order; `?` returns at the
\* first failure.  k = 0: none fails; k > 0: the k-th script run fails.
setup_runs(r, url, hs, k) ==
    LET pos == setup_positions(hs)
        n == IF k = 0 THEN Len(pos) ELSE k
    IN  [t \in 1..n |->
            [repo |-> r, hook_idx |-> pos[t],
             script |-> hs[pos[t]].setup_script[1],
             cwd |-> get_local_repo_path(url),
             path |-> prefix_path(get_local_repo_path(url)),
             ok |-> (k = 0 \/ t < k)]]

\* the repo after init() met failure `fail` (a step of InitSteps, "setup" or
\* "none") with `manifest` the hooks of the source's hooks.yml
init_repo(repo, fail, manifest) ==
    IF fail \in InitSteps THEN repo      \* `?` returns before main.rs:331
    ELSE [repo EXCEPT !.hooks = manifest]

-----------------------------------------------------------------------------
(* git::pull, git::clone, git::checkout and the steps of init() *)

\* a working copy: the revision HEAD is at and whether HEAD is detached
WorkingCopy(h, d) == [head |-> h, detached |-> d]

\* the directory exists but holds no clone: what a failed `git clone` leaves
\* behind create_dir_all (git.rs:133)
EmptyDir == WorkingCopy("", FALSE)

\* git::clone (git.rs:130-146): the directory is created, then `git clone`
clone(remote, net_ok) ==
    IF net_ok THEN [ok |-> TRUE, wc |-> Some(WorkingCopy(remote.tip, FALSE))]
    ELSE [ok |-> FALSE, wc |-> Some(EmptyDir)]

\* git::pull (git.rs:162-170): clone when the directory is missing, else
\* `git pull` in it, which fails outside a clone, on a detached HEAD and
\* when the remote cannot be reached
pull(wc, remote, net_ok) ==
    IF wc = None THEN clone(remote, net_ok)
    ELSE IF wc[1] = EmptyDir \/ wc[1].detached \/ ~net_ok
    THEN [ok |-> FALSE, wc |-> wc]
    ELSE [ok |-> TRUE, wc |-> Some(WorkingCopy(remote.tip, FALSE))]

\* git::checkout (git.rs:148-159): `git rev-parse --verify`, then
\* `git checkout`, which leaves HEAD detached at the reference
checkout(reference, wc, remote) ==
    IF reference \in remote.revs
    THEN [ok |-> TRUE, wc |-> Some(WorkingCopy(reference, TRUE))]
    ELSE [ok |-> FALSE, wc |-> wc]

\* main.rs:323-325: the working copy after the optional checkout, whose
\* Result is dropped
after_checkout(repo, wc, remote) ==
    IF is_some(repo.version) THEN checkout(repo.version[1], wc, remote).wc
    ELSE wc

InitResult(st, stp, repo, wc, m, su) ==
    [status |-> st, step |-> stp, repo |-> repo, wc |-> wc, manifest |-> m,
     setups |-> su]

\* position (among the scripts setup() runs) of the first one that fails,
\* 0 when none does
first_failing(hs, failing) ==
    LET pos == setup_positions(hs)
        bad == {t \in 1..Len(pos) : hs[pos[t]].setup_script[1] \in failing}
    IN  IF bad = {} THEN 0 ELSE CHOOSE t \in bad : \A u \in bad : t <= u

\* ExternalHookRepo::init for source number r, with the working copy wc,
\* the remote (its revisions, the tip of its default branch, its hooks.yml
\* at each revision), the network up or not, and the setup scripts that fail
init(r, repo, wc, remote, net_ok, failing) ==
    LET p == pull(wc, remote, net_ok)
    IN  IF ~p.ok
        THEN InitResult("err", "pull", init_repo(repo, "pull", <<>>), p.wc,
                        <<>>, <<>>)
        ELSE
        LET c == after_checkout(repo, p.wc, remote)
            file == remote.file[c[1].head]
        IN  IF file.state = "missing"           \* File::open(..)?
            THEN InitResult("err", "read", init_repo(repo, "read", <<>>), c,
                            <<>>, <<>>)
            ELSE IF file.state = "malformed"    \* serde_yaml::from_str(..)?
            THEN InitResult("err", "parse", init_repo(repo, "parse", <<>>), c,
                            <<>>, <<>>)
            ELSE
            LET k == first_failing(file.hooks, failing)
            IN  InitResult(IF k = 0 THEN "ok" ELSE "err",
                           IF k = 0 THEN "none" ELSE "setup",
                           init_repo(repo, "none", file.hooks), c, file.hooks,
                           setup_runs(r, repo.url, file.hooks, k))

-----------------------------------------------------------------------------
(* main: `run <event>` *)

active_hooks_names(c) == [i \in 1..Len(c.hooks) |-> c.hooks[i].name]

\* faulty variant: the filter on the active names is missing
passes_filters_any_name(hook, ev, active) ==
    contains(unwrap_or(hook.on_event, <<PreCommit>>), ev)

\* the two filters of main.rs:530-536
passes_filters(hook, ev, active) ==
    /\ contains(unwrap_or(hook.on_event, <<PreCommit>>), ev)
    /\ contains(active, hook.name)

Positions(c) ==
    UNION {{<<r, j>> : j \in 1..Len(c.repos[r].hooks)} : r \in 1..Len(c.repos)}

Before(p, q) == p[1] < q[1] \/ (p[1] = q[1] /\ p[2] < q[2])

\* faulty variant: the event of the run is not looked at
matched_any_event(c, ev) ==
    {p \in Positions(c) :
        contains(active_hooks_names(c), c.repos[p[1]].hooks[p[2]].name)}

\* the hooks the two nested iterators of main.rs:524-551 yield
matched(c, ev) ==
    {p \in Positions(c) :
        passes_filters(c.repos[p[1]].hooks[p[2]], ev, active_hooks_names(c))}

cursor(cs) ==
    IF cs = <<>> THEN <<0, 0>>
    ELSE <<cs[Len(cs)].repo, cs[Len(cs)].hook_idx>>

\* faulty variant: the walk stops after a hook that returned Err
pending_until_error(c, ev, cs) ==
    IF cs # <<>> /\ cs[Len(cs)].status = "err" THEN {}
    ELSE {p \in matched(c, ev) : Before(cursor(cs), p)}

\* the matched hooks the iterators have not reached yet
pending(c, ev, cs) == {p \in matched(c, ev) : Before(cursor(cs), p)}

first(S) == CHOOSE p \in S : \A q \in S : p = q \/ Before(p, q)

\* faulty variant: had_error reflects the last hook only
next_had_error_last(he, status) == status = "err"

\* main.rs:539-547
next_had_error(he, status) == he \/ status = "err"

\* main.rs:552-554: info!("Nothing to do.")
nothing_to_do(executed) == ~executed

\* main.rs:555-557 and main.rs:567
exit_result(he) == IF he THEN "err" ELSE "ok"

-----------------------------------------------------------------------------
(* Spec: one run of `git-hooks run <event>` *)

NoConf == HookConfig(<<>>, <<>>)

Init ==
    /\ pc = "start"
    /\ conf = NoConf
    /\ before = NoConf
    /\ origin = <<>>
    /\ event = "none"
    /\ has_executed_hook = FALSE
    /\ had_error = FALSE
    /\ result = "none"
    /\ calls = <<>>
    /\ setups = <<>>
    /\ idx = [f \in Files |-> 1]
    /\ wt = [f \in Files |-> 1]
    /\ bins = {<<PATH[1], "lint">>}
    /\ input = <<>>
    /\ clones = <<>>
    /\ proc = <<>>

\* from_file, main.rs:364-375: the file is read and parsed, then
\* update_repos_config runs on the parsed value
ReadConfig ==
    /\ pc = "start"
    /\ \E file \in TopLevelFiles :
          /\ before' = file
          /\ conf' = update_repos_config(file)
    /\ pc' = "init"
    /\ UNCHANGED <<proc, input, clones, origin, event, has_executed_hook, had_error, result,
                   calls, setups, idx, wt, bins>>

\* from_file, main.rs:374: serde_yaml::from_str fails, `?` leaves main
ReadConfigFails ==
    /\ pc = "start"
    /\ pc' = "exit"
    /\ result' = "err"
    /\ UNCHANGED <<proc, input, clones, conf, before, origin, event, has_executed_hook, had_error,
                   calls, setups, idx, wt, bins>>

RECURSIVE loaded(_)
\* ghost: the number of manifest hooks loaded so far
loaded(o) == IF o = <<>> THEN 0 ELSE Len(o[Len(o)].manifest) + loaded(SubSeq(o, 1, Len(o) - 1))

\* from_file, main.rs:377-389: repo.init() for the next source; its error
\* is logged and dropped
InitRepo ==
    /\ pc = "init"
    /\ Len(origin) < Len(conf.repos)
    /\ LET r == Len(origin) + 1
           repo == conf.repos[r]
       IN  \/ \E fail \in InitSteps :
                /\ origin' = Append(origin, [fail |-> "init", manifest |-> <<>>])
                /\ conf' = [conf EXCEPT !.repos[r] = init_repo(repo, fail, <<>>)]
                /\ setups' = setups
           \/ \E m \in SeqsUpTo(ManifestHooks, MaxManifestHooks - loaded(origin)) :
              \E k \in 0..Len(setup_positions(m)) :
                /\ origin' = Append(origin,
                                [fail |-> IF k = 0 THEN "none" ELSE "setup",
                                 manifest |-> m])
                /\ conf' = [conf EXCEPT !.repos[r] = init_repo(repo, "none", m)]
                /\ setups' = setups \o setup_runs(r, repo.url, m, k)
    /\ UNCHANGED <<proc, input, clones, pc, before, event, has_executed_hook, had_error, result,
                   calls, idx, wt, bins>>

\* main.rs:499-523: from_file has returned, the subcommand is `run <event>`
StartRun ==
    /\ pc = "init"
    /\ Len(origin) = Len(conf.repos)
    /\ \E e \in Events : event' = e
    /\ pc' = "dispatch"
    /\ UNCHANGED <<proc, input, clones, conf, before, origin, has_executed_hook, had_error, result,
                   calls, setups, idx, wt, bins>>

\* main.rs:537-549: the next matched hook goes through run_hook
DispatchHook ==
    /\ pc = "dispatch"
    /\ pending(conf, event, calls) # {}
    /\ \E p \in {first(pending(conf, event, calls))} :
       \E beh \in RunBehaviours :
       \E res \in {run_hook(conf.repos[p[1]].hooks[p[2]],
                            get_local_repo_path(conf.repos[p[1]].url),
                            idx, wt, bins, beh)} :
          /\ calls' = Append(calls, Call(p[1], p[2],
                                         conf.repos[p[1]].hooks[p[2]],
                                         res, idx, wt))
          /\ idx' = res.idx
          /\ wt' = res.wt
          /\ IF res.status = "panic"
             THEN /\ pc' = "panic"
                  /\ UNCHANGED <<had_error, has_executed_hook>>
             ELSE /\ pc' = "dispatch"
                  /\ had_error' = next_had_error(had_error, res.status)
                  /\ has_executed_hook' = TRUE
    /\ UNCHANGED <<proc, input, clones, conf, before, origin, event, result, setups, bins>>

\* main.rs:552-567: the iterators are exhausted
FinishRun ==
    /\ pc = "dispatch"
    /\ pending(conf, event, calls) = {}
    /\ result' = exit_result(had_error)
    /\ pc' = "exit"
    /\ UNCHANGED <<proc, input, clones, conf, before, origin, event, has_executed_hook, had_error,
                   calls, setups, idx, wt, bins>>

Next ==
    \/ ReadConfig
    \/ ReadConfigFails
    \/ InitRepo
    \/ StartRun
    \/ DispatchHook
    \/ FinishRun

Spec == Init /\ [][Next]_vars

-----------------------------------------------------------------------------
(* SpecMerge: update_repos_config on bounded configurations *)

LocalSetup == "local-setup.sh"

\* the override entries: for h1 every combination of set and unset fields;
\* for h2, whose source hook sets no field, none, one or all of the fields
MergeOverrideHooks ==
    {o \in {Hook(n, ev, re, ac, su) :
                n \in Names,
                ev \in {None, Some(<<PostCommit>>)},
                re \in {None, Some(<<TxtRe>>)},
                ac \in {None, Some(OverrideAction)},
                su \in {None, Some(LocalSetup)}} :
        \/ o.name = "h1"
        \/ Cardinality({f \in OverrideFields : o[f] # None}) \in {0, 1, 4}}

MergeSourceHooks ==
    {Hook("h1", Some(<<PreCommit>>), Some(<<MatchAll>>), Some(LintAction),
          Some(SetupScript)),
     Hook("h2", None, None, None, None)}

FullSourceHook ==
    Hook("h1", Some(<<PreCommit>>), Some(<<MatchAll>>), Some(LintAction),
         Some(SetupScript))

BareSourceHook == Hook("h2", None, None, None, None)

\* the hook lists of a source in SpecMerge: up to MaxMergeHooks hooks
MergeSourceLists == SeqsUpTo(MergeSourceHooks, MaxMergeHooks)

Idle ==
    /\ before = NoConf
    /\ origin = <<>>
    /\ event = "none"
    /\ has_executed_hook = FALSE
    /\ had_error = FALSE
    /\ result = "none"
    /\ calls = <<>>
    /\ setups = <<>>
    /\ input = <<>>
    /\ clones = <<>>
    /\ proc = <<>>

InitMerge ==
    /\ pc = "merge"
    /\ \E hs \in SeqsUpTo(MergeOverrideHooks, MaxMergeOverrides) :
       \E n \in 0..MaxMergeSources :
       \E src \in [1..n -> MergeSourceLists] :
          conf = HookConfig(hs, [i \in 1..n |-> ExternalHookRepo(Url(i), src[i])])
    /\ Idle
    /\ idx = [f \in Files |-> 1]
    /\ wt = [f \in Files |-> 1]
    /\ bins = {}

\* conf.update_repos_config()
ApplyMerge ==
    /\ pc = "merge"
    /\ before' = conf
    /\ conf' = update_repos_config(conf)
    /\ pc' = "merged"
    /\ UNCHANGED <<proc, input, clones, origin, event, has_executed_hook, had_error, result, calls,
                   setups, idx, wt, bins>>

NextMerge == ApplyMerge

SpecMerge == InitMerge /\ [][NextMerge]_vars

-----------------------------------------------------------------------------
(* SpecHook: run_hook on bounded hooks and repository states *)

Tokens == {"{files}", "{changed_files}", "{root}", "{file}", "{changed_file}",
           "-x", "--fix"}

\* the actions of SpecHook: unset, empty, lint with up to MaxArgs argument
\* tokens, and two whose first token is spelled like a placeholder
HookActions ==
    {None, Some(<<>>), Some(<<"{root}", "-x">>), Some(<<"{files}">>)} \cup
    {Some(<<"lint">> \o a) : a \in SeqsUpTo(Tokens, MaxArgs)}

HookCases ==
    {Hook("h1", None, re, ac, None) :
        re \in {None, Some(<<TxtRe>>)}, ac \in HookActions}

\* a.txt (not in HEAD): absent, untracked, staged as added;
\* b.rs (in HEAD): unchanged, staged as modified
RepoStates ==
    {s \in [idx : [Files -> 0..2], wt : [Files -> 0..2]] :
        /\ <<s.idx["a.txt"], s.wt["a.txt"]>> \in {<<0, 0>>, <<0, 1>>, <<1, 1>>}
        /\ <<s.idx["b.rs"], s.wt["b.rs"]>> \in {<<1, 1>>, <<2, 2>>}}

HookRepoPath == get_local_repo_path(Url(1))

BinCases == SUBSET {<<PATH[1], "lint">>, <<HookRepoPath, "lint">>}

InitHook ==
    /\ pc = "hook"
    /\ \E h \in HookCases :
          conf = HookConfig(<<>>, <<ExternalHookRepo(Url(1), <<h>>)>>)
    /\ Idle
    /\ \E s \in RepoStates : idx = s.idx /\ wt = s.wt
    /\ bins \in BinCases

\* run_hook(&hook, &get_local_repo_path(&repo.url))
CallRunHook ==
    /\ pc = "hook"
    /\ \E beh \in Behaviours :
       \E res \in {run_hook(conf.repos[1].hooks[1],
                            get_local_repo_path(conf.repos[1].url),
                            idx, wt, bins, beh)} :
          /\ calls' = <<Call(1, 1, conf.repos[1].hooks[1], res, idx, wt)>>
          /\ idx' = res.idx
          /\ wt' = res.wt
          /\ pc' = IF res.status = "panic" THEN "panic" ELSE "returned"
    /\ UNCHANGED <<proc, input, clones, conf, before, origin, event,
                   has_executed_hook, had_error, result, setups, bins>>

NextHook == CallRunHook

SpecHook == InitHook /\ [][NextHook]_vars

-----------------------------------------------------------------------------
(* SpecMatch: utils::matches, utils::get_files and the {changed_files}     *)
(* filter on bounded paths and pattern lists                               *)

\* paths given to matches: relative and absolute, files and directories,
\* inside and outside the VCS directory
MatchPaths ==
    { <<".git">>, <<".git", "config">>, <<"a.txt">>, <<"b.rs">>,
      <<".gitignore">>, <<"src">>, <<"src", "a.txt">>,
      root, root \o <<"a.txt">>, root \o <<".git", "config">>,
      root \o <<"src", ".gitignore">> }

Patterns == {MatchAll, TxtRe, SrcRe}

PatternLists == SeqsUpTo(Patterns, MaxPatterns)

InitMatch ==
    /\ pc = "match"
    /\ conf = NoConf
    /\ before = NoConf
    /\ origin = <<>>
    /\ event = "none"
    /\ has_executed_hook = FALSE
    /\ had_error = FALSE
    /\ result = "none"
    /\ calls = <<>>
    /\ setups = <<>>
    /\ \E s \in RepoStates : idx = s.idx /\ wt = s.wt
    /\ bins = {}
    /\ \E e \in MatchPaths, regexps \in PatternLists :
          input = [e |-> e, regexps |-> regexps]
    /\ clones = <<>>
    /\ proc = <<>>

MatchCall(op, res) == [op |-> op, res |-> res]

\* matches(e, regexps)
CallMatches ==
    /\ pc = "match"
    /\ calls' = <<MatchCall("matches", matches(input.e, input.regexps))>>
    /\ pc' = "returned"
    /\ UNCHANGED <<proc, input, clones, conf, before, origin, event, has_executed_hook,
                   had_error, result, setups, idx, wt, bins>>

\* get_files(&root, regexps)
CallGetFiles ==
    /\ pc = "match"
    /\ calls' = <<MatchCall("get_files", get_files(root, input.regexps, wt))>>
    /\ pc' = "returned"
    /\ UNCHANGED <<proc, input, clones, conf, before, origin, event, has_executed_hook,
                   had_error, result, setups, idx, wt, bins>>

\* main.rs:252-265: the staged files filtered through matches
CallChangedFiles ==
    /\ pc = "match"
    /\ calls' = <<MatchCall("changed_files",
                            changed_files_for(
                                Hook("h1", None, Some(input.regexps), None, None),
                                idx, wt))>>
    /\ pc' = "returned"
    /\ UNCHANGED <<proc, input, clones, conf, before, origin, event, has_executed_hook,
                   had_error, result, setups, idx, wt, bins>>

NextMatch ==
    \/ CallMatches
    \/ CallGetFiles
    \/ CallChangedFiles

SpecMatch == InitMatch /\ [][NextMatch]_vars

-----------------------------------------------------------------------------
(* SpecInit: ExternalHookRepo::init on one source, run after run *)

BuildScript == "build.sh"

SetupScripts == {SetupScript, BuildScript}

\* revisions of the remote: r1 is tagged, r2 is the tip of the default
\* branch; r0 names nothing there
Revs == {"r1", "r2"}

Versions == {None, Some("r1"), Some("r0")}

InitHooks ==
    {Hook("h1", None, None, Some(LintAction), None),
     Hook("h1", None, None, Some(LintAction), Some(SetupScript)),
     Hook("h2", None, None, Some(LintAction), Some(BuildScript))}

ManifestFile(st, hs) == [state |-> st, hooks |-> hs]

\* hooks.yml at the tip: absent, unparsable, or a list of hooks
TipFiles ==
    {ManifestFile("missing", <<>>), ManifestFile("malformed", <<>>)} \cup
    {ManifestFile("ok", hs) : hs \in SeqsUpTo(InitHooks, MaxInitHooks)}

\* hooks.yml at the tagged revision
TaggedFiles ==
    {ManifestFile("missing", <<>>),
     ManifestFile("ok", <<Hook("h2", Some(<<PostCommit>>), None,
                                Some(LintAction), None)>>)}

Remotes ==
    {[revs |-> Revs, tip |-> "r2", file |-> [v \in Revs |->
                                              IF v = "r2" THEN t ELSE g]] :
        t \in TipFiles, g \in TaggedFiles}

\* what a previous run left at the local path: nothing, a clone on its
\* branch, a clone with HEAD detached at the tagged revision
InitialCopies ==
    {None, Some(WorkingCopy("r2", FALSE)), Some(WorkingCopy("r1", TRUE))}

InitSource ==
    /\ pc = "load"
    /\ \E v \in Versions, d \in DeclaredHooks :
          conf = HookConfig(<<>>, <<[ExternalHookRepo(Url(1), d)
                                       EXCEPT !.version = v]>>)
    /\ before = conf
    /\ origin = <<>>
    /\ event = "none"
    /\ has_executed_hook = FALSE
    /\ had_error = FALSE
    /\ result = "none"
    /\ calls = <<>>
    /\ setups = <<>>
    /\ idx = [f \in Files |-> 1]
    /\ wt = [f \in Files |-> 1]
    /\ bins = {}
    /\ input \in Remotes
    /\ \E wc \in InitialCopies :
          clones = [d \in {get_local_repo_path(Url(1))} |-> wc]
    /\ proc = <<>>

\* one run of the program reaches repo.init() for the source as the
\* top-level file gives it
CallInit ==
    /\ pc \in {"load", "loaded"}
    /\ \E net_ok \in BOOLEAN, failing \in SUBSET SetupScripts :
       \E res \in {init(1, before.repos[1],
                         clones[get_local_repo_path(before.repos[1].url)],
                         input, net_ok, failing)} :
          /\ conf' = [before EXCEPT !.repos[1] = res.repo]
          /\ clones' = [clones EXCEPT
                           ![get_local_repo_path(before.repos[1].url)] = res.wc]
          /\ origin' = <<[fail |-> IF res.step \in InitSteps THEN "init"
                                   ELSE res.step,
                          step |-> res.step, status |-> res.status,
                          manifest |-> res.manifest, hooks |-> res.repo.hooks,
                          net_ok |-> net_ok, failing |-> failing]>>
          /\ calls' = origin       \* ghost: how the run before this one ended
          /\ setups' = res.setups
    /\ pc' = "loaded"
    /\ UNCHANGED <<proc, input, before, event, has_executed_hook, had_error, result,
                   idx, wt, bins>>

NextInit == CallInit

SpecInit == InitSource /\ [][NextInit]_vars

-----------------------------------------------------------------------------
(* Properties *)

FromFileReturned == pc \in {"dispatch", "exit", "panic"} /\ event # "none"

\* source r went through init() far enough to have its manifest assigned
Materialized(r) == r <= Len(origin) /\ origin[r].fail # "init"

SameNamed(hs, n) == {i \in 1..Len(hs) : hs[i].name = n}

Min(S) == CHOOSE i \in S : \A k \in S : i <= k

\* the hooks the dispatch has to run, restated from the event and the names
Selected ==
    {p \in Positions(conf) :
        LET h == conf.repos[p[1]].hooks[p[2]]
            evs == IF h.on_event = None THEN <<PreCommit>> ELSE h.on_event[1]
        IN  /\ \E k \in 1..Len(evs) : evs[k] = event
            /\ \E i \in 1..Len(conf.hooks) : conf.hooks[i].name = h.name}

Attempts(p) == {k \in 1..Len(calls) : <<calls[k].repo, calls[k].hook_idx>> = p}

\* C1: whenever a hook has been handed to run_hook, every hook of a
\* materialized source that has a same-named entry in the top-level hooks
\* list carries, for each of the four fields that such an entry sets, the
\* value of a same-named entry: the merge acted on the materialized hooks.
C1_MergeAppliedBeforeDispatch ==
    calls # <<>> =>
        \A r \in 1..Len(conf.repos) : Materialized(r) =>
            \A j \in 1..Len(conf.repos[r].hooks) :
                LET h == conf.repos[r].hooks[j]
                    same == SameNamed(conf.hooks, h.name)
                IN  \A f \in OverrideFields :
                        (\E i \in same : conf.hooks[i][f] # None) =>
                            \E i \in same : /\ conf.hooks[i][f] # None
                                            /\ h[f] = conf.hooks[i][f]

\* C2: after update_repos_config every source hook h with a same-named
\* override o (the entry the lookup finds) holds, field by field, o's value
\* where o sets the field and its own previous value where o leaves it
\* unset; a hook with no same-named override is unchanged; the lists keep
\* their shape and the override list itself is untouched.
C2_FieldLevelMerge ==
    pc = "merged" =>
        /\ conf.hooks = before.hooks
        /\ Len(conf.repos) = Len(before.repos)
        /\ \A r \in 1..Len(before.repos) :
            /\ Len(conf.repos[r].hooks) = Len(before.repos[r].hooks)
            /\ conf.repos[r].url = before.repos[r].url
            /\ \A j \in 1..Len(before.repos[r].hooks) :
                LET old == before.repos[r].hooks[j]
                    new == conf.repos[r].hooks[j]
                    same == SameNamed(before.hooks, old.name)
                IN  IF same = {} THEN new = old
                    ELSE LET o == before.hooks[Min(same)]
                         IN  /\ new.name = old.name
                             /\ \A f \in OverrideFields :
                                   new[f] = IF o[f] # None THEN o[f] ELSE old[f]

\* C2 witness: an override that sets only the action was merged into a
\* source hook, which kept its own on_event and on_file_regex
C2_Witness ==
    /\ pc = "merged"
    /\ \E r \in 1..Len(conf.repos) : \E j \in 1..Len(conf.repos[r].hooks) :
          LET old == before.repos[r].hooks[j]
              new == conf.repos[r].hooks[j]
              same == SameNamed(before.hooks, old.name)
          IN  /\ same # {}
              /\ before.hooks[Min(same)].action # None
              /\ before.hooks[Min(same)].on_event = None
              /\ before.hooks[Min(same)].on_file_regex = None
              /\ old.on_event # None
              /\ new.action # old.action
              /\ new.on_event = old.on_event
              /\ new.on_file_regex = old.on_file_regex

\* C3: run_hook is invoked only for hooks whose on_event ([pre-commit] when
\* unset) contains the event and whose name is in the top-level hooks list,
\* at most once for each, with the hook as the configuration holds it; and
\* when the dispatch has run to its end every such hook was invoked exactly
\* once.  A source hook whose name is not in the top-level list is never
\* invoked.
C3_DispatchSelection ==
    /\ \A k \in 1..Len(calls) :
          /\ <<calls[k].repo, calls[k].hook_idx>> \in Selected
          /\ calls[k].hook = conf.repos[calls[k].repo].hooks[calls[k].hook_idx]
    /\ \A p \in Positions(conf) : Cardinality(Attempts(p)) <= 1
    /\ (pc = "exit" /\ event # "none") =>
          \A p \in Selected : Cardinality(Attempts(p)) = 1

\* C3 witness: a finished dispatch that ran one hook and left aside both a
\* hook of another event and a hook whose name is not in the top-level list
C3_Witness ==
    /\ pc = "exit"
    /\ Len(calls) = 1
    /\ \E p \in Positions(conf) :
          LET h == conf.repos[p[1]].hooks[p[2]]
          IN  /\ Attempts(p) = {}
              /\ contains(unwrap_or(h.on_event, <<PreCommit>>), event)
              /\ ~contains(active_hooks_names(conf), h.name)
    /\ \E p \in Positions(conf) :
          LET h == conf.repos[p[1]].hooks[p[2]]
          IN  /\ Attempts(p) = {}
              /\ ~contains(unwrap_or(h.on_event, <<PreCommit>>), event)

C5_AggregateResult ==
    (result # "none" /\ event # "none") =>
        /\ \A p \in Selected : Attempts(p) # {}
        /\ result = "err" <=> \E k \in 1..Len(calls) : calls[k].status = "err"
        /\ result = "ok" <=> \A k \in 1..Len(calls) : calls[k].status = "ok"

\* C5 witness: the first hook failed, the last one succeeded, and the
\* dispatch returned the error after the last one
C5_Witness ==
    /\ result = "err"
    /\ Len(calls) >= 2
    /\ calls[1].status = "err"
    /\ calls[Len(calls)].status = "ok"

-----------------------------------------------------------------------------
(* Properties of run_hook *)

\* the argument tokens of the action run_hook was called with
ArgTokens(c) == Tail(c.hook.action[1])

IsFilesToken(t) == t = "{files}" \/ t = "{changed_files}"

IsReserved(t) == t = "{file}" \/ t = "{changed_file}"

IsLiteral(t) == t \notin {"{files}", "{changed_files}", "{file}",
                          "{changed_file}", "{root}"}

\* run_hook went past its fail-fast checks: the action is set, has a
\* command, and holds no reserved placeholder
Expandable(c) ==
    /\ c.hook.action # None
    /\ c.hook.action[1] # <<>>
    /\ \A i \in 1..Len(ArgTokens(c)) : ~IsReserved(ArgTokens(c)[i])

\* the arguments of the spawned command that come from token i
FromToken(c, i) ==
    {k \in 1..Len(c.spawned[1].args) : c.spawned[1].args[k].src = i}

\* the files placeholder at position i expanded to zero files
ExpandedEmpty(c, i) == IsFilesToken(ArgTokens(c)[i]) /\ FromToken(c, i) = {}

\* the literal at position j is passed on: the nearest files placeholder
\* before it, if there is one, expanded to at least one file
Accepted(c, j) ==
    LET prev == {i \in 1..(j - 1) : IsFilesToken(ArgTokens(c)[i])}
    IN  prev = {} \/ FromToken(c, CHOOSE i \in prev : \A m \in prev : m <= i) # {}

\* C6: when run_hook returns Ok, every file that was staged before the hook
\* ran and whose working-tree content the command changed has been re-added:
\* the index holds its working-tree content.
C6_ModifiedStagedFilesReAdded ==
    \A k \in 1..Len(calls) : calls[k].status = "ok" =>
        \A f \in Files :
            (/\ calls[k].idx_before[f] # 0
             /\ calls[k].idx_before[f] # head[f]
             /\ calls[k].wt_after[f] # calls[k].wt_before[f])
            => calls[k].idx_after[f] = calls[k].wt_after[f]

\* C7: when the program of a hook is present both in the source's working
\* copy and in a directory of the current PATH, the PATH given to the spawned
\* command is the working copy followed by the current PATH, and the program
\* is run from the working copy.
C7_SourcePathFirst ==
    \A k \in 1..Len(calls) : calls[k].spawned # None =>
        LET sp == calls[k].spawned[1]
            src == get_local_repo_path(conf.repos[calls[k].repo].url)
        IN  (/\ <<src, sp.cmd>> \in bins
             /\ \E d \in 1..Len(PATH) : <<PATH[d], sp.cmd>> \in bins)
            => /\ sp.path = <<src>> \o PATH
               /\ sp.dir = Some(src)

\* C8 as stated: once a files placeholder has expanded to zero files, no
\* literal token placed after it is among the arguments of the spawned
\* command, and the command is spawned all the same.
C8_NoLiteralAfterEmpty ==
    \A k \in 1..Len(calls) : Expandable(calls[k]) =>
        /\ calls[k].spawned # None
        /\ \A i \in 1..Len(ArgTokens(calls[k])) : ExpandedEmpty(calls[k], i) =>
              \A j \in (i + 1)..Len(ArgTokens(calls[k])) :
                  IsLiteral(ArgTokens(calls[k])[j]) => FromToken(calls[k], j) = {}

\* C8 amended: a literal token is among the arguments of the spawned
\* command, once and verbatim, exactly when the nearest files placeholder
\* before it (if any) expanded to at least one file: literals are dropped
\* after a files placeholder that expanded to zero files only up to the next
\* files placeholder that expands to some file.  The command is spawned
\* with the accepted tokens in every case.
C8_LiteralsFollowLastPlaceholder ==
    \A k \in 1..Len(calls) : Expandable(calls[k]) =>
        /\ calls[k].spawned # None
        /\ calls[k].spawned[1].cmd = Head(calls[k].hook.action[1])
        /\ \A j \in 1..Len(ArgTokens(calls[k])) :
              IsLiteral(ArgTokens(calls[k])[j]) =>
                  /\ Accepted(calls[k], j) <=> FromToken(calls[k], j) # {}
                  /\ Cardinality(FromToken(calls[k], j)) <= 1
                  /\ \A a \in FromToken(calls[k], j) :
                        calls[k].spawned[1].args[a].val = <<ArgTokens(calls[k])[j]>>

\* C8 witness: a files placeholder expanded to zero files, the literal
\* after it was dropped, a later files placeholder expanded to a file, and
\* the command was spawned
C8_Witness ==
    /\ calls # <<>>
    /\ Expandable(calls[1])
    /\ calls[1].spawned # None
    /\ Len(ArgTokens(calls[1])) = 3
    /\ ExpandedEmpty(calls[1], 1)
    /\ IsLiteral(ArgTokens(calls[1])[2])
    /\ FromToken(calls[1], 2) = {}
    /\ IsFilesToken(ArgTokens(calls[1])[3])
    /\ FromToken(calls[1], 3) # {}

\* C9 as stated: when {changed_files} expands to zero files the command is
\* spawned with every literal token placed before the placeholder, and
\* run_hook returns Ok whenever the command exits with status 0 (checked
\* at the first {changed_files} of the action).
C9_EmptyChangedFilesKeepsLiterals ==
    \A k \in 1..Len(calls) : Expandable(calls[k]) =>
        \A i \in 1..Len(ArgTokens(calls[k])) :
            (/\ ArgTokens(calls[k])[i] = "{changed_files}"
             /\ \A m \in 1..(i - 1) : ArgTokens(calls[k])[m] # "{changed_files}"
             /\ calls[k].spawned # None => ExpandedEmpty(calls[k], i))
            => /\ calls[k].spawned # None
               /\ \A j \in 1..(i - 1) :
                     IsLiteral(ArgTokens(calls[k])[j]) =>
                         FromToken(calls[k], j) # {}
               /\ calls[k].exit = Some(0) => calls[k].status = "ok"

\* C9 amended: when {changed_files} expands to zero files the command is
\* spawned with every literal token placed before the placeholder that was
\* not itself dropped after an earlier files placeholder that expanded to
\* zero files, and run_hook returns Ok whenever the command exits with
\* status 0: the empty match alone never produces an error.
C9_EmptyChangedFilesStillRuns ==
    \A k \in 1..Len(calls) : Expandable(calls[k]) =>
        \A i \in 1..Len(ArgTokens(calls[k])) :
            (/\ ArgTokens(calls[k])[i] = "{changed_files}"
             /\ calls[k].spawned # None => ExpandedEmpty(calls[k], i))
            => /\ calls[k].spawned # None
               /\ \A j \in 1..(i - 1) :
                     (IsLiteral(ArgTokens(calls[k])[j]) /\ Accepted(calls[k], j))
                         => FromToken(calls[k], j) # {}
               /\ calls[k].exit = Some(0) => calls[k].status = "ok"
               /\ calls[k].status = "err" =>
                     (calls[k].exit = None \/ calls[k].exit # Some(0))

\* C9 witness: {changed_files} expanded to zero files after a literal, the
\* command ran with that literal as its only argument, exited with status 0
\* and run_hook returned Ok
C9_Witness ==
    /\ calls # <<>>
    /\ calls[1].hook.action = Some(<<"lint", "--fix", "{changed_files}">>)
    /\ calls[1].spawned # None
    /\ Len(calls[1].spawned[1].args) = 1
    /\ calls[1].spawned[1].args[1].val = <<"--fix">>
    /\ calls[1].exit = Some(0)
    /\ calls[1].status = "ok"

\* C10: once from_file has returned, no source holds a hook taken from its
\* entry in the top-level file: its hooks are those of its own manifest,
\* and none when its materialization failed before the manifest was loaded.
C10_DeclaredHooksDiscarded ==
    FromFileReturned =>
        \A r \in 1..Len(conf.repos) :
            conf.repos[r].hooks =
                IF origin[r].fail = "init" THEN <<>> ELSE origin[r].manifest

\* C11: a source whose materialization failed (fetch, manifest read or
\* parse, or a setup script) is skipped: no run_hook invocation of the run
\* is for a hook of such a source.  Stated for the sources whose entry in
\* the top-level file carries no hooks value, where C10 plays no part.
C11_FailedSourceSkipped ==
    \A k \in 1..Len(calls) :
        before.repos[calls[k].repo].hooks = <<>> =>
            origin[calls[k].repo].fail = "none"

-----------------------------------------------------------------------------
(* Properties of matches *)

\* e lies in the VCS metadata directory: one of its components is .git
UnderVcsDir(e) == \E i \in 1..Len(e) : e[i] = ".git"

\* at least one pattern of the list is found in the string form of e
SomePatternFound(e, regexps) ==
    \E i \in 1..Len(regexps) : is_match(Regex_new(regexps[i]), display(e))

MatchesReturned == pc = "returned" /\ calls[1].op = "matches"

\* C12: for a path that is not a directory and does not lie under the VCS
\* metadata directory, matches returns true exactly when at least one
\* pattern of the list is found in the path's string form.
C12_MatchesIffSomePattern ==
    (MatchesReturned /\ ~is_dir(input.e) /\ ~UnderVcsDir(input.e)) =>
        (calls[1].res <=> SomePatternFound(input.e, input.regexps))

\* C13: matches is false for every path under the VCS metadata directory
\* and for every directory, whatever the patterns; neither get_files nor
\* the {changed_files} filter yields such a path.
C13_VcsDirAndDirectoriesExcluded ==
    /\ (MatchesReturned /\ (is_dir(input.e) \/ UnderVcsDir(input.e))) =>
            calls[1].res = FALSE
    /\ (pc = "returned" /\ calls[1].op \in {"get_files", "changed_files"}) =>
            \A k \in 1..Len(calls[1].res) :
                /\ below_root(calls[1].res[k]) \notin Dirs
                /\ ~UnderVcsDir(calls[1].res[k])

\* C13 witness: with a pattern that matches everything, matches returned
\* false for a file of the VCS directory
C13_Witness ==
    /\ MatchesReturned
    /\ input.e = root \o <<".git", "config">>
    /\ input.regexps = <<MatchAll>>
    /\ calls[1].res = FALSE

-----------------------------------------------------------------------------
(* Properties of run_hook: failures *)

\* C14: when the spawned command exits with a non-zero code c, run_hook
\* returns an error, and that error carries the hook's identity and c.
C14_FailureCarriesHookAndCode ==
    \A k \in 1..Len(calls) :
        (calls[k].exit # None /\ calls[k].exit[1] # 0) =>
            /\ calls[k].status = "err"
            /\ calls[k].error.hook = Some(calls[k].hook.name)
            /\ calls[k].error.code = calls[k].exit

\* C15: a hook whose action has {file} or {changed_file} among its argument
\* tokens makes the run fail, and its command is never spawned, whatever
\* comes before the placeholder and whatever should_run is by then.
C15_ReservedPlaceholderFatal ==
    \A k \in 1..Len(calls) :
        (/\ calls[k].hook.action # None
         /\ calls[k].hook.action[1] # <<>>
         /\ \E i \in 1..Len(ArgTokens(calls[k])) :
                IsReserved(ArgTokens(calls[k])[i])) =>
            /\ calls[k].status = "panic"
            /\ calls[k].spawned = None
            /\ pc = "panic"

\* C15 witness: nothing is staged, so {changed_files} left should_run
\* false and the literal after it was dropped; {file} was fatal all the same
C15_Witness ==
    /\ calls # <<>>
    /\ calls[1].hook.action = Some(<<"lint", "{changed_files}", "-x", "{file}">>)
    /\ changed_files(TRUE, calls[1].idx_before, calls[1].wt_before) = <<>>
    /\ calls[1].status = "panic"
    /\ calls[1].spawned = None

-----------------------------------------------------------------------------
(* Properties of the dispatch: nothing to run *)

\* C16: when no hook of any source both matches the event and is active,
\* the finished dispatch has called run_hook zero times, has spawned
\* nothing, reports that there is nothing to do and returns success.
C16_NothingToDo ==
    (pc = "exit" /\ event # "none" /\ Selected = {}) =>
        /\ calls = <<>>
        /\ nothing_to_do(has_executed_hook)
        /\ result = "ok"

\* C16 witness: a materialized source holds an active pre-commit hook, the
\* event is post-commit, and the run ended without a call
C16_Witness ==
    /\ pc = "exit"
    /\ event = PostCommit
    /\ \E p \in Positions(conf) :
          LET h == conf.repos[p[1]].hooks[p[2]]
          IN  /\ h.on_event = None
              /\ contains(active_hooks_names(conf), h.name)
    /\ Selected = {}
    /\ calls = <<>>
    /\ result = "ok"

-----------------------------------------------------------------------------
(* Properties of update_repos_config: duplicate names *)

Max(S) == CHOOSE i \in S : \A k \in S : k <= i

\* the merged source hooks that have several same-named overrides, as
\* <<source, position>>
Duplicated ==
    {p \in Positions(before) :
        Cardinality(SameNamed(before.hooks, before.repos[p[1]].hooks[p[2]].name)) >= 2}

\* C17 as claimed: with several same-named entries in the top-level hooks
\* list, the merged source hook holds, for every field the last of them
\* sets, the value of that last entry.
C17_LastOverrideWins ==
    pc = "merged" =>
        \A p \in Duplicated :
            LET old == before.repos[p[1]].hooks[p[2]]
                new == conf.repos[p[1]].hooks[p[2]]
                o == before.hooks[Max(SameNamed(before.hooks, old.name))]
            IN  \A f \in OverrideFields : o[f] # None => new[f] = o[f]

\* C17 as amended: the merged source hook holds, for every field the first
\* same-named entry sets, the value of that first entry, and its own
\* previous value for every field the first entry leaves unset, whatever
\* the later same-named entries set.
C17_FirstOverrideWins ==
    pc = "merged" =>
        \A p \in Duplicated :
            LET old == before.repos[p[1]].hooks[p[2]]
                new == conf.repos[p[1]].hooks[p[2]]
                o == before.hooks[Min(SameNamed(before.hooks, old.name))]
            IN  \A f \in OverrideFields :
                    /\ o[f] # None => new[f] = o[f]
                    /\ o[f] = None => new[f] = old[f]

\* C17 witness: the first h1 entry sets only the action, the last one sets
\* on_event; the merged hook took the action and kept its own on_event
C17_Witness ==
    /\ pc = "merged"
    /\ Len(before.hooks) = 2
    /\ before.hooks[1] = Hook("h1", None, None, Some(OverrideAction), None)
    /\ before.hooks[2] = Hook("h1", Some(<<PostCommit>>), None, None, None)
    /\ \E p \in Duplicated :
          /\ before.repos[p[1]].hooks[p[2]].on_event = Some(<<PreCommit>>)
          /\ conf.repos[p[1]].hooks[p[2]].action = Some(OverrideAction)
          /\ conf.repos[p[1]].hooks[p[2]].on_event = Some(<<PreCommit>>)

-----------------------------------------------------------------------------
(* Properties of ExternalHookRepo::init *)

LocalCopy == clones[get_local_repo_path(before.repos[1].url)]

InitReturnedOk == pc = "loaded" /\ origin[1].status = "ok"

\* C18: whenever init returns Ok for a source whose version is set to v,
\* v names a revision of the source, the working copy has HEAD at v and
\* the hooks of the source are those of the manifest at v.
C18_PinnedRevision ==
    (InitReturnedOk /\ before.repos[1].version # None) =>
        LET v == before.repos[1].version[1]
        IN  /\ v \in input.revs
            /\ LocalCopy # None
            /\ LocalCopy[1].head = v
            /\ conf.repos[1].hooks = input.file[v].hooks

-----------------------------------------------------------------------------
(* Properties of run_hook: the order of the arguments *)

\* the values of the arguments that come from token i, in order
ValuesFrom(c, i) ==
    LET from == SelectSeq(c.spawned[1].args, LAMBDA a : a.src = i)
    IN  [k \in 1..Len(from) |-> from[k].val]

\* the file list a files placeholder stands for when hook c runs
SelectedFiles(c, t) ==
    IF t = "{files}" THEN files_for(c.hook, c.wt_before)
    ELSE changed_files_for(c.hook, c.idx_before, c.wt_before)

\* the command is the first token as written, and the arguments come in
\* the order of the tokens they stand for, the root for each {root} and the
\* selected files for each files placeholder
CommandAndPlaceholdersInOrder(c) ==
    /\ c.spawned[1].cmd = Head(c.hook.action[1])
    /\ \A a, b \in 1..Len(c.spawned[1].args) :
          a < b => c.spawned[1].args[a].src <= c.spawned[1].args[b].src
    /\ \A i \in 1..Len(ArgTokens(c)) :
          LET t == ArgTokens(c)[i]
          IN  /\ t = "{root}" => ValuesFrom(c, i) = <<root>>
              /\ IsFilesToken(t) => ValuesFrom(c, i) = SelectedFiles(c, t)

\* C19 as claimed: the first token is the command, never expanded; the
\* arguments follow the order of the other tokens, {root} replaced by the
\* root, a files placeholder by its file list, and every other token copied
\* verbatim.
C19_EveryTokenInOrder ==
    \A k \in 1..Len(calls) :
        (calls[k].spawned # None /\ calls[k].spawned[1].dir # None) =>
            /\ CommandAndPlaceholdersInOrder(calls[k])
            /\ \A i \in 1..Len(ArgTokens(calls[k])) :
                  IsLiteral(ArgTokens(calls[k])[i]) =>
                      ValuesFrom(calls[k], i) = << <<ArgTokens(calls[k])[i]>> >>

\* C19 as amended: as above, except that a literal token is copied
\* verbatim at its position only when the nearest files placeholder before
\* it, if any, expanded to at least one file, and is left out otherwise.
C19_OrderPreservingExpansion ==
    \A k \in 1..Len(calls) :
        calls[k].spawned # None =>
            /\ CommandAndPlaceholdersInOrder(calls[k])
            /\ \A i \in 1..Len(ArgTokens(calls[k])) :
                  IsLiteral(ArgTokens(calls[k])[i]) =>
                      ValuesFrom(calls[k], i) =
                          IF Accepted(calls[k], i)
                          THEN << <<ArgTokens(calls[k])[i]>> >>
                          ELSE <<>>

\* C19 witness: `lint -x {root} --fix`, an action with no files
\* placeholder, was spawned as lint with [-x, <root>, --fix]
C19_Witness ==
    /\ calls # <<>>
    /\ calls[1].hook.action = Some(<<"lint", "-x", "{root}", "--fix">>)
    /\ calls[1].spawned # None
    /\ calls[1].spawned[1].cmd = "lint"
    /\ [k \in 1..Len(calls[1].spawned[1].args) |->
            calls[1].spawned[1].args[k].val] = << <<"-x">>, root, <<"--fix">> >>

-----------------------------------------------------------------------------
(* Properties of run_hook: a hook without an action *)

\* C20: a hook whose action is unset is rejected before run_hook performs
\* any step for it (no root lookup, no search path, no spawn), and the
\* rejection is a failure.
C20_UnsetActionRejectedFirst ==
    \A k \in 1..Len(calls) :
        calls[k].hook.action = None =>
            /\ calls[k].steps = <<>>
            /\ calls[k].spawned = None
            /\ calls[k].status \in {"err", "panic"}


-----------------------------------------------------------------------------
(* SpecTwice: update_repos_config applied twice in a row *)

\* the source lists of SpecTwice: none, one source with both hooks, two
\* sources with one hook each, one source that lists a name twice
TwiceSourceLists ==
    {<<>>,
     <<<<FullSourceHook, BareSourceHook>>>>,
     <<<<FullSourceHook>>, <<BareSourceHook>>>>,
     <<<<BareSourceHook, FullSourceHook, FullSourceHook>>>>}

InitTwice ==
    /\ pc = "twice"
    /\ \E hs \in SeqsUpTo(MergeOverrideHooks, MaxMergeOverrides) :
       \E src \in TwiceSourceLists :
          conf = HookConfig(hs, [i \in 1..Len(src) |->
                                   ExternalHookRepo(Url(i), src[i])])
    /\ Idle
    /\ idx = [f \in Files |-> 1]
    /\ wt = [f \in Files |-> 1]
    /\ bins = {}

\* conf.update_repos_config(), first time
ApplyFirst ==
    /\ pc = "twice"
    /\ before' = conf
    /\ conf' = update_repos_config(conf)
    /\ pc' = "once"
    /\ UNCHANGED <<proc, input, clones, origin, event, has_executed_hook, had_error,
                   result, calls, setups, idx, wt, bins>>

\* conf.update_repos_config(), second time; input keeps the value the
\* second call was given
ApplySecond ==
    /\ pc = "once"
    /\ input' = conf
    /\ conf' = update_repos_config(conf)
    /\ pc' = "applied twice"
    /\ UNCHANGED <<proc, before, clones, origin, event, has_executed_hook, had_error,
                   result, calls, setups, idx, wt, bins>>

NextTwice ==
    \/ ApplyFirst
    \/ ApplySecond

SpecTwice == InitTwice /\ [][NextTwice]_vars

\* C21: applying update_repos_config twice in a row leaves every source
\* hook, and the override list, in the state one application left them in.
C21_MergeIdempotent ==
    pc = "applied twice" =>
        /\ conf.hooks = input.hooks
        /\ Len(conf.repos) = Len(input.repos)
        /\ \A r \in 1..Len(input.repos) :
              /\ Len(conf.repos[r].hooks) = Len(input.repos[r].hooks)
              /\ \A j \in 1..Len(input.repos[r].hooks) :
                    conf.repos[r].hooks[j] = input.repos[r].hooks[j]

\* C21 witness: two same-named overrides, the first application replaced
\* the pattern list and the event list of a source hook, and the merge was
\* applied a second time
C21_Witness ==
    /\ pc = "applied twice"
    /\ Cardinality(SameNamed(before.hooks, "h1")) = 2
    /\ \E r \in 1..Len(before.repos) : \E j \in 1..Len(before.repos[r].hooks) :
          /\ before.repos[r].hooks[j].name = "h1"
          /\ input.repos[r].hooks[j].on_file_regex
                # before.repos[r].hooks[j].on_file_regex
          /\ input.repos[r].hooks[j].on_event
                # before.repos[r].hooks[j].on_event

-----------------------------------------------------------------------------
(* Properties of ExternalHookRepo::setup *)

\* the executions of the setup script of hook j of source r
SetupRuns(r, j) ==
    {t \in 1..Len(setups) : setups[t].repo = r /\ setups[t].hook_idx = j}

\* C22: once the manifest of a source has been loaded, every hook of the
\* source that has a setup_script has had that script executed exactly
\* once, with PATH set to the source's local path followed by the current
\* PATH, whatever the outcome of the scripts of the hooks listed before it;
\* and every source has been through this before the first hook is
\* dispatched.
C22_EverySetupScriptRunOnce ==
    /\ calls # <<>> => Len(origin) = Len(conf.repos)
    /\ \A r \in 1..Len(origin) : Materialized(r) =>
          \A j \in 1..Len(origin[r].manifest) :
              is_some(origin[r].manifest[j].setup_script) =>
                  /\ Cardinality(SetupRuns(r, j)) = 1
                  /\ \A t \in SetupRuns(r, j) :
                        /\ setups[t].script = origin[r].manifest[j].setup_script[1]
                        /\ setups[t].path =
                              <<get_local_repo_path(conf.repos[r].url)>> \o PATH

-----------------------------------------------------------------------------
(* SpecStage: git::add and git::changed_files on bounded repositories *)

\* a.txt (not in HEAD): absent, untracked with either content, staged,
\* staged and edited since; b.rs (in HEAD): unchanged, staged as modified,
\* removed (git rm), removed from the index only, deleted on disk, edited
StageStates ==
    {s \in [idx : [Files -> 0..2], wt : [Files -> 0..2]] :
        /\ <<s.idx["a.txt"], s.wt["a.txt"]>> \in
              {<<0, 0>>, <<0, 1>>, <<0, 2>>, <<1, 1>>, <<2, 2>>, <<1, 2>>}
        /\ <<s.idx["b.rs"], s.wt["b.rs"]>> \in
              {<<1, 1>>, <<2, 2>>, <<0, 0>>, <<0, 1>>, <<1, 0>>, <<1, 2>>}}

\* the path lists given to add
AddLists == {<<"a.txt">>, <<"b.rs">>, <<"a.txt", "b.rs">>}

InitStage ==
    /\ pc = "stage"
    /\ conf = NoConf
    /\ Idle
    /\ \E s \in StageStates : idx = s.idx /\ wt = s.wt
    /\ bins = {}

GitCall(op, arg, res, ix, w) ==
    [op |-> op, arg |-> arg, res |-> res, idx_before |-> ix, wt_before |-> w]

\* changed_files(in_index), at most once for each flag before and after
\* the add
CallChanged ==
    /\ pc \in {"stage", "added"}
    /\ \E in_index \in BOOLEAN :
          /\ \A k \in 1..Len(calls) :
                (calls[k].op = "changed_files" /\ calls[k].arg = in_index)
                    => \E m \in (k + 1)..Len(calls) : calls[m].op = "add"
          /\ calls' = Append(calls,
                             GitCall("changed_files", in_index,
                                     changed_files(in_index, idx, wt), idx, wt))
    /\ UNCHANGED <<proc, pc, input, clones, conf, before, origin, event,
                   has_executed_hook, had_error, result, setups, idx, wt, bins>>

\* add(files)
CallAdd ==
    /\ pc = "stage"
    /\ \E files \in AddLists :
          /\ calls' = Append(calls, GitCall("add", files,
                                            add_status(files, idx, wt), idx, wt))
          /\ idx' = IF add_status(files, idx, wt) = "ok"
                    THEN add(files, idx, wt) ELSE idx
    /\ pc' = "added"
    /\ UNCHANGED <<proc, input, clones, conf, before, origin, event,
                   has_executed_hook, had_error, result, setups, wt, bins>>

NextStage ==
    \/ CallChanged
    \/ CallAdd

SpecStage == InitStage /\ [][NextStage]_vars

\* f is on disk, in neither HEAD nor the index, when call c starts
BrandNew(c, f) ==
    head[f] = 0 /\ c.idx_before[f] = 0 /\ c.wt_before[f] # 0

\* C23: after add(f) of a brand-new untracked file f, changed_files(true)
\* contains f and changed_files(false) does not; and no file is returned
\* both by changed_files(true) and by changed_files(false) in the same
\* repository state.
C23_StagedUnstagedPartition ==
    /\ \A k \in 1..Len(calls) : \A f \in Files :
          (/\ calls[k].op = "add"
           /\ calls[k].res = "ok"
           /\ contains(calls[k].arg, f)
           /\ BrandNew(calls[k], f)) =>
              \A m \in (k + 1)..Len(calls) :
                  /\ calls[m].arg = TRUE => contains(calls[m].res, f)
                  /\ calls[m].arg = FALSE => ~contains(calls[m].res, f)
    /\ \A k, m \in 1..Len(calls) :
          (/\ calls[k].op = "changed_files" /\ calls[k].arg = TRUE
           /\ calls[m].op = "changed_files" /\ calls[m].arg = FALSE
           /\ calls[k].idx_before = calls[m].idx_before
           /\ calls[k].wt_before = calls[m].wt_before) =>
              \A f \in Files :
                  ~(contains(calls[k].res, f) /\ contains(calls[m].res, f))

-----------------------------------------------------------------------------
(* SpecPipe: utils::execute_cmd and the child it spawns, step by step.     *)
(* The child makes the writes of `input` in order, each to its standard    *)
(* output or its standard error, then exits; a write blocks while the pipe *)
(* is full.  pc is the position of the parent in execute_cmd.              *)

Streams == {"stdout", "stderr"}

ChildScripts == SeqsUpTo(Streams, MaxWrites)

\* the child and the pipes right after spawn() (utils.rs:29-43)
Spawned ==
    [pos |-> 1, exited |-> FALSE,
     pipe |-> [s \in Streams |-> 0],        \* writes held by each pipe
     captured |-> [s \in Streams |-> 0]]    \* writes read into each String

InitPipe ==
    /\ pc = "read stderr"
    /\ conf = NoConf
    /\ before = NoConf
    /\ origin = <<>>
    /\ event = "none"
    /\ has_executed_hook = FALSE
    /\ had_error = FALSE
    /\ result = "none"
    /\ calls = <<>>
    /\ setups = <<>>
    /\ idx = [f \in Files |-> 1]
    /\ wt = [f \in Files |-> 1]
    /\ bins = {}
    /\ input \in ChildScripts
    /\ clones = <<>>
    /\ proc = Spawned

\* the child: its next write, which needs room in the pipe
ChildWrite ==
    /\ ~proc.exited
    /\ proc.pos <= Len(input)
    /\ proc.pipe[input[proc.pos]] < PipeCapacity
    /\ proc' = [proc EXCEPT !.pos = @ + 1,
                            !.pipe[input[proc.pos]] = @ + 1]
    /\ UNCHANGED <<pc, input, clones, conf, before, origin, event,
                   has_executed_hook, had_error, result, calls, setups, idx,
                   wt, bins>>

\* the child: exit after the last write, which closes its end of both pipes
ChildExit ==
    /\ ~proc.exited
    /\ proc.pos > Len(input)
    /\ proc' = [proc EXCEPT !.exited = TRUE]
    /\ UNCHANGED <<pc, input, clones, conf, before, origin, event,
                   has_executed_hook, had_error, result, calls, setups, idx,
                   wt, bins>>

\* one read() of read_to_string on stream s: what the pipe holds is taken;
\* on an empty pipe the read returns 0 (end of file) only once the child has
\* closed it, and blocks until then
read_to_string(s, next_pc) ==
    /\ \/ /\ proc.pipe[s] > 0
          /\ proc' = [proc EXCEPT !.captured[s] = @ + proc.pipe[s],
                                  !.pipe[s] = 0]
          /\ pc' = pc
       \/ /\ proc.pipe[s] = 0
          /\ proc.exited
          /\ proc' = proc
          /\ pc' = next_pc
    /\ UNCHANGED <<input, clones, conf, before, origin, event,
                   has_executed_hook, had_error, result, calls, setups, idx,
                   wt, bins>>

\* utils.rs:45-47: standard error is read to its end first
ReadStderr ==
    /\ pc = "read stderr"
    /\ read_to_string("stderr", "read stdout")

\* utils.rs:49-51: then standard output
ReadStdout ==
    /\ pc = "read stdout"
    /\ read_to_string("stdout", "wait")

\* utils.rs:53-69: cmd.wait() and the return
Wait ==
    /\ pc = "wait"
    /\ proc.exited
    /\ pc' = "returned"
    /\ result' = "ok"
    /\ UNCHANGED <<proc, input, clones, conf, before, origin, event,
                   has_executed_hook, had_error, calls, setups, idx, wt, bins>>

NextPipe ==
    \/ ChildWrite
    \/ ChildExit
    \/ ReadStderr
    \/ ReadStdout
    \/ Wait

SpecPipe == InitPipe /\ [][NextPipe]_vars

\* the number of writes of the script that go to stream s
Written(s) == Len(SelectSeq(input, LAMBDA w : w = s))

\* the child waits for room in the pipe of its next write
ChildBlocked ==
    /\ ~proc.exited
    /\ proc.pos <= Len(input)
    /\ proc.pipe[input[proc.pos]] = PipeCapacity

\* the parent waits for data or end of file on the stream it reads
ParentBlocked ==
    \/ pc = "read stderr" /\ proc.pipe["stderr"] = 0 /\ ~proc.exited
    \/ pc = "read stdout" /\ proc.pipe["stdout"] = 0 /\ ~proc.exited
    \/ pc = "wait" /\ ~proc.exited

\* C24: for every volume and interleaving of the child's writes, parent
\* and child are never both waiting on each other, and when execute_cmd
\* has returned the child has exited and both streams were captured in
\* full.
C24_ExecuteCmdNeverStuck ==
    /\ ~(ParentBlocked /\ ChildBlocked)
    /\ pc = "returned" =>
          /\ proc.exited
          /\ \A s \in Streams : proc.captured[s] = Written(s)

-----------------------------------------------------------------------------
(* Properties of ExternalHookRepo::init: run after run *)

\* C25: when init succeeded for a source in one run, it succeeds again in
\* the next run of the same top-level file against the same origin, with
\* the network up and the same setup script outcomes, and assigns the same
\* hooks; a pinned version, which leaves the working copy checked out at
\* that version, makes no difference.
C25_InitRepeatable ==
    (/\ pc = "loaded"
     /\ calls # <<>>
     /\ calls[1].status = "ok"
     /\ origin[1].net_ok
     /\ origin[1].failing = calls[1].failing) =>
        /\ origin[1].status = "ok"
        /\ origin[1].hooks = calls[1].hooks
        /\ conf.repos[1].hooks = calls[1].hooks

-----------------------------------------------------------------------------
(* SpecSources: from_file materializing the two sources of one config, in  *)
(* a repository that holds no working copy yet                             *)

\* urls as split('/') cuts them: two hosts with a repository of the same
\* name, another repository, and a url written with a trailing slash
SourceUrls ==
    {<<"https:", "", "example.org", "lint-hooks">>,
     <<"https:", "", "example.com", "lint-hooks">>,
     <<"https:", "", "example.org", "fmt-hooks">>,
     <<"https:", "", "example.org", "lint-hooks", "">>}

\* hooks.yml at the tip of a source: a manifest with one hook, or none
SourceFiles ==
    {ManifestFile("ok", <<Hook("h1", None, None, Some(LintAction), None)>>),
     ManifestFile("ok", <<Hook("h2", None, None, Some(LintAction), None)>>),
     ManifestFile("missing", <<>>)}

SourceRemote(t) == [revs |-> Revs, tip |-> "r2", file |-> [v \in Revs |-> t]]

InitSources ==
    /\ pc = "sources"
    /\ \E u1, u2 \in SourceUrls :
          /\ u1 # u2
          /\ conf = HookConfig(<<>>, <<ExternalHookRepo(u1, <<>>),
                                       ExternalHookRepo(u2, <<>>)>>)
          /\ clones = [d \in {get_local_repo_path(u1),
                               get_local_repo_path(u2)} |-> None]
    /\ before = conf
    /\ origin = <<>>
    /\ event = "none"
    /\ has_executed_hook = FALSE
    /\ had_error = FALSE
    /\ result = "none"
    /\ calls = <<>>
    /\ setups = <<>>
    /\ idx = [f \in Files |-> 1]
    /\ wt = [f \in Files |-> 1]
    /\ bins = {}
    /\ \E t1, t2 \in SourceFiles : input = <<SourceRemote(t1), SourceRemote(t2)>>
    /\ proc = <<>>

\* the source whose remote the directory at path d tracks once source r
\* has pulled into it: r itself when r cloned it, else the source that did
tracked(d, r) ==
    LET made == {k \in 1..Len(origin) : origin[k].path = d}
    IN  IF made = {} THEN r ELSE CHOOSE k \in made : \A m \in made : k <= m

\* from_file, main.rs:377-389: repo.init() for the next source
Materialize ==
    /\ pc = "sources"
    /\ Len(origin) < Len(conf.repos)
    /\ \E net_ok \in BOOLEAN :
       \E r \in {Len(origin) + 1} :
       \E d \in {get_local_repo_path(conf.repos[r].url)} :
       \E res \in {init(r, conf.repos[r], clones[d], input[tracked(d, r)],
                         net_ok, {})} :
          /\ conf' = [conf EXCEPT !.repos[r] = res.repo]
          /\ clones' = [clones EXCEPT ![d] = res.wc]
          /\ origin' = Append(origin,
                              [fail |-> IF res.step \in InitSteps THEN "init"
                                        ELSE res.step,
                               step |-> res.step, status |-> res.status,
                               manifest |-> res.manifest, path |-> d,
                               tracks |-> tracked(d, r)])
    /\ UNCHANGED <<pc, proc, input, before, event, has_executed_hook,
                   had_error, result, calls, setups, idx, wt, bins>>

\* from_file returns the configuration
SourcesDone ==
    /\ pc = "sources"
    /\ Len(origin) = Len(conf.repos)
    /\ pc' = "materialized"
    /\ UNCHANGED <<proc, input, clones, conf, before, origin, event,
                   has_executed_hook, had_error, result, calls, setups, idx,
                   wt, bins>>

NextSources ==
    \/ Materialize
    \/ SourcesDone

SpecSources == InitSources /\ [][NextSources]_vars

\* the directory the working copies are kept in
HookReposDir == root \o <<HOOK_REPOS_SAVE_LOCATION>>

\* d is a directory directly below the hook-repos directory
ProperSubdirectory(d) ==
    /\ Len(d) = Len(HookReposDir) + 1
    /\ SubSeq(d, 1, Len(HookReposDir)) = HookReposDir
    /\ d[Len(d)] # ""

\* C26: two sources of one config with different urls have different
\* local paths, each a proper subdirectory of the hook-repos directory,
\* and a source that was materialized holds the hooks of its own manifest,
\* read from a working copy of its own url.
C26_DistinctWorkingCopies ==
    pc = "materialized" =>
        /\ \A r \in 1..Len(conf.repos) :
              /\ ProperSubdirectory(get_local_repo_path(conf.repos[r].url))
              /\ origin[r].status = "ok" =>
                    /\ origin[r].tracks = r
                    /\ conf.repos[r].hooks = input[r].file[input[r].tip].hooks
        /\ \A r, q \in 1..Len(conf.repos) :
              conf.repos[r].url # conf.repos[q].url =>
                  get_local_repo_path(conf.repos[r].url)
                      # get_local_repo_path(conf.repos[q].url)

====
